---- MODULE Spec2Model ----
(***************************************************************************)
(* Order reconciliation (PUT /orders-by-number/:order_no) of the Castolin  *)
(* back end, as implemented twice: by the monolithic server (src/test.js)  *)
(* and by the routes module (src/routes/orders.js) on top of               *)
(* OracleService (src/unnamed/part_000).                                   *)
(*                                                                         *)
(* The orders table is a set of rows.  Of its 35 columns the model keeps   *)
(* the key columns and one column of each class the handlers treat         *)
(* differently:                                                            *)
(*   customer_name  order-level (common), not in the update allow-list     *)
(*   status         order-level (common), in the update allow-list         *)
(*   quantity       per-row, in the update allow-list                      *)
(* A request item is a record of the same fields, with the set of the      *)
(* fields it carries, in which an absent (falsy) id holds NoId.            *)
(***************************************************************************)
EXTENDS Integers, Sequences, FiniteSets, TLC

VARIABLES orders, nextId, pc, last, customer, reply, tx, admins, signup, pool, health

vars == <<orders, nextId, pc, last, customer, reply, tx, admins, signup, pool, health>>

(***************************************************************************)
(* Bounds of the model.                                                    *)
(***************************************************************************)
MaxId == 2
MaxItems == 3
MaxCustomers == 2

(***************************************************************************)
(* Values.                                                                 *)
(***************************************************************************)
NoId == 0
NoErr == ""
OrderKeys == {"A", "B"}
BlankKey == " "

Trim(s) == IF s = BlankKey THEN "" ELSE s

RowFields == {"id", "order_no", "customer_name", "status", "quantity"}

MkRow(id, k, cn, st, q) ==
    [id |-> id, order_no |-> k, customer_name |-> cn, status |-> st, quantity |-> q]

(* has: the names of the fields the JSON item carries; a field it does not  *)
(* carry is undefined in the handler and holds a filler here.              *)
MkItem(id, del, has, cn, st, q) ==
    [id |-> id, deleted |-> del, has |-> has,
     customer_name |-> cn, status |-> st, quantity |-> q]

ItemFields == {"customer_name", "status", "quantity"}

(***************************************************************************)
(* Sequence helpers.                                                       *)
(***************************************************************************)
Range(s) == {s[i] : i \in 1..Len(s)}

SeqsUpTo(S, n) == UNION {[1..k -> S] : k \in 0..n}

(* SELECT ... ORDER BY id over a set of rows with distinct ids. *)
RECURSIVE OrderById(_)
OrderById(rs) ==
    IF rs = {} THEN <<>>
    ELSE LET m == CHOOSE r \in rs : \A o \in rs : r.id <= o.id
         IN <<m>> \o OrderById(rs \ {m})

(***************************************************************************)
(* Request parsing shared by both handlers.                                *)
(***************************************************************************)
(* [...req.body].sort((a, b) => (a.id || 0) - (b.id || 0)): a stable sort, *)
(* items without id first.  SortInsert puts x behind every element whose   *)
(* key is not larger.                                                      *)
RECURSIVE SortInsert(_, _)
SortInsert(s, x) ==
    IF s = <<>> THEN <<x>>
    ELSE IF Head(s).id <= x.id THEN <<Head(s)>> \o SortInsert(Tail(s), x)
    ELSE <<x>> \o s

(* A handler that keeps the submitted order. *)
NoSort(body) == body

RECURSIVE SortById(_)
SortById(body) ==
    IF body = <<>> THEN <<>>
    ELSE SortInsert(SortById(SubSeq(body, 1, Len(body) - 1)), body[Len(body)])

IsInsert(i) == i.id = NoId /\ ~i.deleted
IsUpdate(i) == i.id # NoId /\ ~i.deleted

(* A deletion filter that does not look at the id. *)
IsDeleteAnyId(i) == i.deleted

IsDelete(i) == i.deleted /\ i.id # NoId

ItemsToInsert(allItems) == SelectSeq(allItems, IsInsert)
ItemsToUpdate(allItems) == SelectSeq(allItems, IsUpdate)
ItemsToDelete(allItems) == SelectSeq(allItems, IsDelete)

Ids(items) == [i \in 1..Len(items) |-> items[i].id]

(* The update allow-list, restricted to the modelled columns. *)
AllowedFields == {"status", "quantity"}

(* A filter that lets every submitted field through. *)
UnfilteredFields(item) == item.has

FilteredFields(item) == {f \in AllowedFields : f \in item.has}

(* The order-level columns and their defaults. *)
CommonFields == {"customer_name", "status"}

DefaultOrderDetails == [customer_name |-> "", status |-> "pending"]

IsValid(i) == ~i.deleted

(* A selection that takes the first valid item whether it has an id or not. *)
FirstValidItem(validItems) == validItems[1]

(* validItems.find(item => item.id) || validItems[0] *)
PriorityItem(validItems) ==
    IF \E j \in 1..Len(validItems) : validItems[j].id # NoId
    THEN validItems[CHOOSE j \in 1..Len(validItems) :
                        /\ validItems[j].id # NoId
                        /\ \A l \in 1..(j - 1) : validItems[l].id = NoId]
    ELSE validItems[1]

CommonOrderDetails(allItems) ==
    LET validItems == SelectSeq(allItems, IsValid)
    IN IF validItems = <<>> THEN DefaultOrderDetails
       ELSE [f \in CommonFields |->
                IF f \in PriorityItem(validItems).has
                THEN PriorityItem(validItems)[f]
                ELSE DefaultOrderDetails[f]]

(* JavaScript item.f || d: d when the field is absent or holds 0 or ''.    *)
OrElseNum(item, f, d) == IF f \notin item.has \/ item[f] = 0 THEN d ELSE item[f]

OrElseStr(item, f, d) == IF f \notin item.has \/ item[f] = "" THEN d ELSE item[f]

(***************************************************************************)
(* The orders table: the statements the handlers issue.                    *)
(***************************************************************************)
Matching(rows, ids, k) == {r \in rows : r.id \in Range(ids) /\ r.order_no = k}

\* SELECT COUNT( * ) FROM orders WHERE order_no = :1
SelectCount(rows, k) == Cardinality({r \in rows : r.order_no = k})

(* SELECT id FROM orders WHERE id IN (...) AND order_no = :n *)
SelectIdsIn(rows, ids, k) == {r.id : r \in Matching(rows, ids, k)}

(* SELECT order_no FROM orders WHERE id = :1 *)
SelectOrderNo(rows, id) == {r.order_no : r \in {x \in rows : x.id = id}}

(* DELETE FROM orders WHERE id IN (...) AND order_no = :n *)
DeleteIn(rows, ids, k) == rows \ Matching(rows, ids, k)

SetFields(r, item, F) ==
    [f \in RowFields |-> IF f \in F THEN item[f] ELSE r[f]]

(* An update statement scoped by id alone. *)
UpdateRowById(rows, id, k, item, F) ==
    {IF r.id = id THEN SetFields(r, item, F) ELSE r : r \in rows}

(* UPDATE orders SET <F> WHERE id = :a AND order_no = :b *)
UpdateRow(rows, id, k, item, F) ==
    {IF r.id = id /\ r.order_no = k THEN SetFields(r, item, F) ELSE r : r \in rows}

RowsAffected(rows, id, k) == Cardinality(Matching(rows, <<id>>, k))

(* INSERT INTO orders (...) VALUES (...): the identity column supplies id. *)
InsertRow(rows, row) == rows \cup {row}

(* UPDATE orders SET <common fields> WHERE order_no = :15 *)
UpdateCommon(rows, k, common) ==
    {IF r.order_no = k
     THEN [r EXCEPT !.customer_name = common.customer_name,
                    !.status = common.status]
     ELSE r : r \in rows}

(* A read-back that is not restricted to the order. *)
SelectAllOrders(rows, k) == OrderById(rows)

\* SELECT all columns FROM orders WHERE order_no = :1 ORDER BY id
SelectByOrderNo(rows, k) == OrderById({r \in rows : r.order_no = k})

(***************************************************************************)
(* One call's run on its connection.  db is the committed table, rows the  *)
(* table as the call's transaction sees it, nid the next value of the      *)
(* identity column, trace the statements issued so far, n their number,    *)
(* err the error thrown (NoErr while none), fault the number of the        *)
(* statement the database fails (0: none).                                 *)
(***************************************************************************)
Err(kind, ids) == [kind |-> kind, ids |-> ids]

NoError == Err(NoErr, <<>>)

(* A statement: its SQL verb, the ids it names, the bind placeholders of   *)
(* its text (nph) and the bind values passed with it (nb).                 *)
Stmt(op, ids, nph, nb) == [op |-> op, ids |-> ids, nph |-> nph, nb |-> nb]

StartRun(db, nid, fault) ==
    [db |-> db, rows |-> db, nid |-> nid, trace |-> <<>>, n |-> 0,
     err |-> NoError, fault |-> fault]

(* connection.execute(sql, binds): fails when the database fails it and    *)
(* when a placeholder of the text is left without a value (ORA-01008);     *)
(* otherwise the transaction's view becomes rows2.                         *)
Exec(r, stmt, rows2) ==
    IF r.err # NoError THEN r
    ELSE IF r.n + 1 = r.fault
         THEN [r EXCEPT !.trace = Append(@, stmt), !.n = @ + 1,
                        !.err = Err("StorageError", <<>>)]
    ELSE IF stmt.nph # stmt.nb
         THEN [r EXCEPT !.trace = Append(@, stmt), !.n = @ + 1,
                        !.err = Err("BindError", <<>>)]
    ELSE [r EXCEPT !.trace = Append(@, stmt), !.n = @ + 1, !.rows = rows2]

(* throw new Error(...) *)
Throw(r, cond, e) == IF r.err = NoError /\ cond THEN [r EXCEPT !.err = e] ELSE r

(* connection.commit() *)
Commit(r) ==
    LET c == Exec(r, Stmt("COMMIT", <<>>, 0, 0), r.rows)
    IN IF c.err = NoError THEN [c EXCEPT !.db = c.rows] ELSE c

(* A rollback that keeps the transaction's work. *)
RollbackKeeps(r) == [r EXCEPT !.db = r.rows]

(* connection.rollback(), and the rollback a closing connection performs   *)
(* on work that was not committed.                                         *)
Rollback(r) == [r EXCEPT !.rows = r.db]

(***************************************************************************)
(* src/test.js: app.put("/orders-by-number/:order_no").                    *)
(***************************************************************************)
AppDeleteStmt(deleteIds) ==
    Stmt("DELETE", deleteIds, Len(deleteIds) + 1 + 2, Len(deleteIds) + 1)

AppDeletes(r, order_no, orderExists, itemsToDelete) ==
    IF itemsToDelete = <<>> THEN r
    ELSE LET deleteIds == Ids(itemsToDelete)
             n1 == Len(deleteIds) + 1
             r1 == IF orderExists
                   THEN Exec(r, Stmt("SELECT id", deleteIds, n1, n1), r.rows)
                   ELSE r
             foundIds == SelectIdsIn(r.rows, deleteIds, order_no)
             missingIds == SelectSeq(deleteIds, LAMBDA id : id \notin foundIds)
             r2 == Throw(r1, orderExists /\ Cardinality(foundIds) # Len(deleteIds),
                         Err("CannotDelete", missingIds))
         IN Exec(r2, AppDeleteStmt(deleteIds), DeleteIn(r2.rows, deleteIds, order_no))

RECURSIVE AppUpdates(_, _, _, _)
AppUpdates(r, order_no, orderExists, itemsToUpdate) ==
    IF itemsToUpdate = <<>> \/ r.err # NoError THEN r
    ELSE LET update == Head(itemsToUpdate)
             id == update.id
             r1 == IF orderExists
                   THEN Exec(r, Stmt("SELECT order_no", <<id>>, 1, 1), r.rows)
                   ELSE r
             found == SelectOrderNo(r.rows, id)
             r2 == Throw(Throw(r1, orderExists /\ found = {},
                               Err("ItemNotExist", <<id>>)),
                         orderExists /\ found # {order_no},
                         Err("WrongOrder", <<id>>))
             F == FilteredFields(update)
             nF == Cardinality(F) + 2
             r3 == IF F = {} THEN r2
                   ELSE Throw(Exec(r2, Stmt("UPDATE", <<id>>, nF, nF),
                                   UpdateRow(r2.rows, id, order_no, update, F)),
                              RowsAffected(r2.rows, id, order_no) = 0,
                              Err("NoRecord", <<id>>))
         IN AppUpdates(r3, order_no, orderExists, Tail(itemsToUpdate))

AppInsertItem(id, order_no, common, newItem) ==
    MkRow(id, order_no, common.customer_name, common.status,
          OrElseNum(newItem, "quantity", 0))

RECURSIVE AppInserts(_, _, _, _)
AppInserts(r, order_no, common, itemsToInsert) ==
    IF itemsToInsert = <<>> \/ r.err # NoError THEN r
    ELSE LET nI == Cardinality(RowFields \ {"id"}) + 1
             r1 == Exec(r, Stmt("INSERT", <<r.nid>>, nI, nI),
                        InsertRow(r.rows,
                                  AppInsertItem(r.nid, order_no, common,
                                                Head(itemsToInsert))))
             r2 == IF r1.err = NoError THEN [r1 EXCEPT !.nid = @ + 1] ELSE r1
         IN AppInserts(r2, order_no, common, Tail(itemsToInsert))

AppTransaction(db, nid, order_no, allItems, fault) ==
    LET itemsToInsert == ItemsToInsert(allItems)
        r1 == Exec(StartRun(db, nid, fault), Stmt("getConnection", <<>>, 0, 0), db)
        r2 == Exec(r1, Stmt("BEGIN", <<>>, 0, 0), r1.rows)
        r3 == Exec(r2, Stmt("SELECT COUNT", <<>>, 1, 1), r2.rows)
        orderExists == SelectCount(r3.rows, order_no) > 0
        r4 == Throw(r3, ~orderExists /\ itemsToInsert = <<>>, Err("NoOrder", <<>>))
        common == CommonOrderDetails(allItems)
        r5 == AppDeletes(r4, order_no, orderExists, ItemsToDelete(allItems))
        r6 == AppUpdates(r5, order_no, orderExists, ItemsToUpdate(allItems))
        r7 == AppInserts(r6, order_no, common, itemsToInsert)
        nC == Cardinality(CommonFields) + 1
        r8 == IF orderExists \/ itemsToInsert # <<>>
              THEN Exec(r7, Stmt("UPDATE common", <<>>, nC, nC),
                        UpdateCommon(r7.rows, order_no, common))
              ELSE r7
        r9 == Commit(r8)
        r10 == Exec(r9, Stmt("SELECT rows", <<>>, 1, 1), r9.rows)
    IN IF r10.err # NoError /\ r1.err = NoError THEN Rollback(r10) ELSE r10

(* What a call leaves behind and answers: the committed table, the        *)
(* identity column, the statements issued, the HTTP status, the error, the *)
(* rows and the counts of the response body.                               *)
Operations(i, u, d) == [inserted |-> i, updated |-> u, deleted |-> d]

Reply(r, http, data, ops) ==
    [db |-> r.db, nid |-> r.nid, trace |-> r.trace, n |-> r.n, http |-> http,
     error |-> r.err, data |-> data, operations |-> ops]

Reject(db, nid, kind) ==
    Reply([StartRun(db, nid, 0) EXCEPT !.err = Err(kind, <<>>)], 400, <<>>,
          Operations(0, 0, 0))

AppPut(db, nid, order_no, body, fault) ==
    LET allItems == SortById(body)
        r == AppTransaction(db, nid, order_no, allItems, fault)
    IN IF Trim(order_no) = "" THEN Reject(db, nid, "OrderNoRequired")
       ELSE IF Len(allItems) = 0 THEN Reject(db, nid, "NoData")
       ELSE IF r.err # NoError THEN Reply(r, 500, <<>>, Operations(0, 0, 0))
       ELSE Reply(r, 200, SelectByOrderNo(r.rows, order_no),
                  Operations(Len(ItemsToInsert(allItems)),
                             Len(ItemsToUpdate(allItems)),
                             Len(ItemsToDelete(allItems))))

(***************************************************************************)
(* src/routes/orders.js: router.put('/orders-by-number/:order_no') on      *)
(* OracleService.executeTransaction and executeQuery.                      *)
(***************************************************************************)
Op(stmt, item, F) == [stmt |-> stmt, item |-> item, F |-> F]

NoItem == MkItem(NoId, FALSE, {}, "", "", 0)

RouterDeleteOps(itemsToDelete) ==
    IF itemsToDelete = <<>> THEN <<>>
    ELSE LET ids == Ids(itemsToDelete)
         IN <<Op(Stmt("DELETE", ids, Len(ids) + 1, Len(ids) + 1), NoItem, {})>>

RECURSIVE RouterUpdateOps(_)
RouterUpdateOps(itemsToUpdate) ==
    IF itemsToUpdate = <<>> THEN <<>>
    ELSE LET row == Head(itemsToUpdate)
             filtered == FilteredFields(row)
             nF == Cardinality(filtered) + 2
         IN (IF filtered = {} THEN <<>>
             ELSE <<Op(Stmt("UPDATE", <<row.id>>, nF, nF), row, filtered)>>)
            \o RouterUpdateOps(Tail(itemsToUpdate))

RouterInsertOps(itemsToInsert) ==
    LET nI == Cardinality(RowFields \ {"id"})
    IN [j \in 1..Len(itemsToInsert) |->
           Op(Stmt("INSERT", <<>>, nI, nI), itemsToInsert[j], {})]

(* An operations list that puts the updates before the deletions. *)
RouterOperationsUpdatesFirst(allItems) ==
    RouterUpdateOps(ItemsToUpdate(allItems))
        \o RouterDeleteOps(ItemsToDelete(allItems))
        \o RouterInsertOps(ItemsToInsert(allItems))

RouterOperations(allItems) ==
    RouterDeleteOps(ItemsToDelete(allItems))
        \o RouterUpdateOps(ItemsToUpdate(allItems))
        \o RouterInsertOps(ItemsToInsert(allItems))

RouterInsertData(id, order_no, item) ==
    MkRow(id, order_no, OrElseStr(item, "customer_name", ""),
          OrElseStr(item, "status", "pending"), OrElseNum(item, "quantity", 0))

(* The effect of one operation of the list on the table. *)
Apply(op, rows, nid, order_no) ==
    CASE op.stmt.op = "DELETE" -> DeleteIn(rows, op.stmt.ids, order_no)
      [] op.stmt.op = "UPDATE" ->
            UpdateRow(rows, op.item.id, order_no, op.item, op.F)
      [] op.stmt.op = "INSERT" ->
            InsertRow(rows, RouterInsertData(nid, order_no, op.item))

RECURSIVE ExecuteOps(_, _, _)
ExecuteOps(r, operations, order_no) ==
    IF operations = <<>> \/ r.err # NoError THEN r
    ELSE LET op == Head(operations)
             r1 == Exec(r, op.stmt, Apply(op, r.rows, r.nid, order_no))
             r2 == IF r1.err = NoError /\ op.stmt.op = "INSERT"
                   THEN [r1 EXCEPT !.nid = @ + 1] ELSE r1
         IN ExecuteOps(r2, Tail(operations), order_no)

(* OracleService.executeTransaction(operations) *)
ExecuteTransaction(r, operations, order_no) ==
    LET r1 == Exec(r, Stmt("getConnection", <<>>, 0, 0), r.rows)
        r2 == Commit(ExecuteOps(r1, operations, order_no))
    IN IF r2.err # NoError /\ r1.err = NoError THEN Rollback(r2) ELSE r2

(* OracleService.executeQuery(query, bindParams) *)
ExecuteQuery(r, stmt) ==
    Exec(Exec(r, Stmt("getConnection", <<>>, 0, 0), r.rows), stmt, r.rows)

RouterPut(db, nid, order_no, body, fault) ==
    LET allItems == SortById(body)
        t == ExecuteTransaction(StartRun(db, nid, fault),
                                RouterOperations(allItems), order_no)
        r == ExecuteQuery(t, Stmt("SELECT rows", <<>>, 1, 1))
    IN IF Trim(order_no) = "" THEN Reject(db, nid, "OrderNoRequired")
       ELSE IF Len(allItems) = 0 THEN Reject(db, nid, "NoData")
       ELSE IF r.err # NoError THEN Reply(r, 500, <<>>, Operations(0, 0, 0))
       ELSE Reply(r, 200, SelectByOrderNo(r.rows, order_no),
                  Operations(Len(ItemsToInsert(allItems)),
                             Len(ItemsToUpdate(allItems)),
                             Len(ItemsToDelete(allItems))))

(***************************************************************************)
(* The state machine.  orders is the committed orders table, nextId the    *)
(* next value of its identity column, pc the position of the client        *)
(* ("ready": about to send its request, "responded": answered), last the   *)
(* request sent and the response received.                                 *)
(***************************************************************************)
Handlers == {"app", "router"}

(***************************************************************************)
(* The connections of a call: what the try / catch / finally blocks of the *)
(* handlers do with them, given the statements the call issued, its error  *)
(* and whether connection.rollback() itself throws.                        *)
(***************************************************************************)
ConnEvent(ev, c) == [ev |-> ev, c |-> c]

\* connection.commit() was reached and did not throw
CommitDone(trace, err) ==
    \E i \in 1..Len(trace) :
       trace[i].op = "COMMIT" /\ (i < Len(trace) \/ err = NoError)

\* pool.getConnection() threw: the connection variable stays undefined
NoConnection(trace, err) == trace = <<>> \/ (Len(trace) = 1 /\ err # NoError)

\* catch: rollback when the call failed; finally: close
ScopeEvents(c, trace, err, rollbackFails) ==
    <<ConnEvent("acquire", c)>>
        \o (IF CommitDone(trace, err) THEN <<ConnEvent("commit", c)>> ELSE <<>>)
        \o (IF err = NoError THEN <<>>
            ELSE IF rollbackFails THEN <<ConnEvent("rollback failed", c)>>
            ELSE <<ConnEvent("rollback", c)>>)
        \o <<ConnEvent("close", c)>>

(* A scope whose close is the last statement of the try block. *)
AppConnLogCloseInTry(trace, err, rollbackFails) ==
    IF NoConnection(trace, err) THEN <<>>
    ELSE IF err = NoError THEN ScopeEvents(1, trace, err, rollbackFails)
    ELSE SubSeq(ScopeEvents(1, trace, err, rollbackFails), 1,
                Len(ScopeEvents(1, trace, err, rollbackFails)) - 1)

\* src/test.js: try { getConnection ... } catch { rollback } finally { close }
AppConnLog(trace, err, rollbackFails) ==
    IF NoConnection(trace, err) THEN <<>>
    ELSE ScopeEvents(1, trace, err, rollbackFails)

\* executeTransaction on one connection, then executeQuery on another
RouterConnLog(trace, err, rollbackFails) ==
    LET g == {i \in 2..Len(trace) : trace[i].op = "getConnection"}
        txn == IF g = {} THEN trace ELSE SubSeq(trace, 1, (CHOOSE i \in g : TRUE) - 1)
        txnErr == IF g = {} THEN err ELSE NoError
        qry == IF g = {} THEN <<>> ELSE SubSeq(trace, CHOOSE i \in g : TRUE, Len(trace))
    IN (IF NoConnection(txn, txnErr) THEN <<>>
        ELSE ScopeEvents(1, txn, txnErr, rollbackFails))
       \o (IF NoConnection(qry, err) THEN <<>>
           ELSE <<ConnEvent("acquire", 2), ConnEvent("close", 2)>>)

ConnLog(h, trace, err, rollbackFails) ==
    IF h = "app" THEN AppConnLog(trace, err, rollbackFails)
    ELSE RouterConnLog(trace, err, rollbackFails)

Handle(h, db, nid, order_no, body, fault) ==
    IF h = "app" THEN AppPut(db, nid, order_no, body, fault)
    ELSE RouterPut(db, nid, order_no, body, fault)

(* The tables the call may find: under each id up to MaxId no row, or a    *)
(* row of either order with either header.                                 *)
InitHeaders == {<<"", "pending">>, <<"Acme", "approved">>}

InitSlots == {<<>>} \cup {<<k, h[1], h[2]>> : k \in OrderKeys, h \in InitHeaders}

InitTable(f) ==
    {MkRow(i, f[i][1], f[i][2], f[i][3], 5) : i \in {j \in 1..MaxId : f[j] # <<>>}}

InitTables == {InitTable(f) : f \in [1..MaxId -> InitSlots]}

(* The items a request may carry. *)
FieldCombos ==
    {<<{"customer_name"}, "Acme", "", 0>>,
     <<{"status", "quantity"}, "", "approved", 7>>}

Items ==
    {MkItem(id, FALSE, c[1], c[2], c[3], c[4]) : id \in 0..MaxId, c \in FieldCombos}
        \cup {MkItem(id, TRUE, {}, "", "", 0) : id \in 0..MaxId}

(* The rows of an order sent back as they were read. *)
RowAsItem(r) == MkItem(r.id, FALSE, ItemFields, r.customer_name, r.status, r.quantity)

EchoItems(rows, k) ==
    LET rs == SelectByOrderNo(rows, k)
    IN [j \in 1..Len(rs) |-> RowAsItem(rs[j])]

(* The request bodies: every list of up to MaxItems items and the echo of  *)
(* the order's rows; with a blank key, which is rejected before the items  *)
(* are looked at, the lists of at most one item.                           *)
Bodies(rows, k) ==
    IF k = BlankKey THEN SeqsUpTo(Items, 1)
    ELSE SeqsUpTo(Items, MaxItems) \cup {EchoItems(rows, k)}

NoCall ==
    [handler |-> "none", order_no |-> "", body |-> <<>>, fault |-> 0, pre |-> {},
     prenid |-> 0,
     post |-> {}, nid |-> 0, http |-> 0, error |-> NoError, data |-> <<>>,
     operations |-> Operations(0, 0, 0), trace |-> <<>>]

(***************************************************************************)
(* The customer table and the two read routes on it (src/test.js).  A row  *)
(* keeps customer_code (the key), customer_name, role and firebase_uid;    *)
(* firebase_uid is NoUid for a customer that never signed in.              *)
(***************************************************************************)
NoUid == ""
Uids == {"u1", "u2"}
Roles == {"distributor", "corporate"}
CustomerNames == {"ALLOY", "ZENITH"}
CustomerCodes == 1..MaxCustomers

MkCustomer(code, name, role, uid) ==
    [customer_code |-> code, customer_name |-> name, role |-> role, firebase_uid |-> uid]

\* What a customer code holds: no row, or the other columns of its row.
NoCustomer == <<>>
CustomerSlots == {NoCustomer} \cup (CustomerNames \X Roles \X (Uids \cup {NoUid}))

CustomerTable(f) ==
    {MkCustomer(c, f[c][1], f[c][2], f[c][3]) : c \in {x \in CustomerCodes : f[x] # NoCustomer}}

CustomerTables == {CustomerTable(f) : f \in [CustomerCodes -> CustomerSlots]}

\* Authorization headers: none, another scheme, "Bearer " followed by a token.
NoAuth == [scheme |-> "", token |-> ""]
Tokens == {"tok-u1", "tok-u2", "expired"}
AuthHeaders == {NoAuth, [scheme |-> "Basic", token |-> "tok-u1"]}
                   \cup {[scheme |-> "Bearer", token |-> t] : t \in Tokens}

\* admin.auth().verifyIdToken(token): the decoded uid, or NoUid when it throws
VerifyIdToken(token) ==
    CASE token = "tok-u1" -> "u1"
      [] token = "tok-u2" -> "u2"
      [] OTHER -> NoUid

\* verifyToken: the uid put on the request, or the 401 it answers
VerifyToken(auth) ==
    IF auth.scheme # "Bearer" THEN [http |-> 401, uid |-> NoUid, error |-> "No token provided"]
    ELSE IF VerifyIdToken(auth.token) = NoUid
         THEN [http |-> 401, uid |-> NoUid, error |-> "Invalid or expired token"]
         ELSE [http |-> 0, uid |-> VerifyIdToken(auth.token), error |-> NoErr]

\* executeQuery of src/test.js: the step that throws, if any
QueryFaults == {"none", "getConnection", "execute"}

NameRank(n) == IF n = "ALLOY" THEN 1 ELSE 2

\* SELECT all columns FROM customer ORDER BY customer_name: every order of
\* the rows that ascends by name (rows of one name come in any order)
SelectCustomers(rows) ==
    {s \in SeqsUpTo(rows, Cardinality(rows)) :
        /\ Len(s) = Cardinality(rows)
        /\ Range(s) = rows
        /\ \A i, j \in 1..Len(s) : i < j => NameRank(s[i].customer_name) <= NameRank(s[j].customer_name)}

\* SELECT customer_code, customer_name, role ... WHERE firebase_uid = :1
SelectByUid(rows, uid) ==
    {[customer_code |-> r.customer_code, customer_name |-> r.customer_name, role |-> r.role] :
        r \in {x \in rows : x.firebase_uid = uid}}

\* The body of a customer update: the fields it carries and their values.
MkUpdates(has, name, role, uid) ==
    [has |-> has, customer_name |-> name, role |-> role, firebase_uid |-> uid]

NoUpdates == MkUpdates({}, "", "", NoUid)

UpdateBodies ==
    {NoUpdates,
     MkUpdates({"customer_code"}, "", "", NoUid),
     MkUpdates({"role"}, "", "corporate", NoUid),
     MkUpdates({"customer_name", "role", "customer_code"}, "ZENITH", "distributor", NoUid),
     MkUpdates({"firebase_uid"}, "", "", "u2")}

NoReply ==
    [route |-> "none", auth |-> NoAuth, fault |-> "none", http |-> 0, success |-> FALSE,
     data |-> <<>>, count |-> 0, error |-> NoErr,
     code |-> 0, updates |-> NoUpdates, affectedRows |-> 0]

\* allowedFields of the customer update routes, restricted to the modelled columns
CustomerAllowedFields == {"customer_name", "role", "firebase_uid"}

FilteredUpdates(updates) == updates.has \cap CustomerAllowedFields

\* UPDATE customer SET ... WHERE customer_code = :n
UpdateCustomer(rows, code, F, updates) ==
    {IF r.customer_code = code
     THEN [f \in DOMAIN r |-> IF f \in F THEN updates[f] ELSE r[f]]
     ELSE r : r \in rows}

CustomerRowsAffected(rows, code) == Cardinality({r \in rows : r.customer_code = code})

\* executeQuery of src/test.js on a statement that turns the table into
\* rows2: the table once the connection is closed.  The statement runs with
\* autoCommit false unless the caller passes autoCommit: true, and closing a
\* connection rolls back the work that was not committed.
QueryCommits(db, rows2, autoCommit, fault) ==
    IF fault = "none" /\ autoCommit THEN rows2 ELSE db

\* app.put("/distributors/:customer_code") and app.put("/corporates/:customer_code")
CustomerUpdateReply(route, rows, code, updates, fault) ==
    LET base == [NoReply EXCEPT !.route = route, !.code = code, !.updates = updates]
    IN IF updates.has = {}
       THEN [base EXCEPT !.http = 400, !.error = "No update data provided"]
       ELSE IF FilteredUpdates(updates) = {}
            THEN [base EXCEPT !.http = 400, !.error = "No valid fields to update"]
       ELSE IF fault # "none"
            THEN [base EXCEPT !.fault = fault, !.http = 500, !.error = "Database error"]
       ELSE IF CustomerRowsAffected(rows, code) = 0
            THEN [base EXCEPT !.http = 404, !.error = IF route = "/distributors" THEN "Distributor not found"
                                                ELSE "Corporate not found"]
       ELSE [base EXCEPT !.http = 200, !.success = TRUE,
                         !.affectedRows = CustomerRowsAffected(rows, code)]

CustomerUpdateTable(rows, code, updates, fault) ==
    IF FilteredUpdates(updates) = {} THEN rows
    ELSE QueryCommits(rows, UpdateCustomer(rows, code, FilteredUpdates(updates), updates),
                      FALSE, fault)

CountOrOne(rows) == IF Len(rows) = 0 THEN 1 ELSE Len(rows)

\* result.rows?.length || 0
CountOf(rows) == IF Len(rows) = 0 THEN 0 ELSE Len(rows)

\* app.get("/customer")
CustomerReply(fault, rows) ==
    IF fault # "none"
    THEN [NoReply EXCEPT !.route = "/customer", !.fault = fault, !.http = 500,
                         !.error = "Failed to fetch customers"]
    ELSE [NoReply EXCEPT !.route = "/customer", !.http = 200, !.success = TRUE,
                         !.data = rows, !.count = CountOf(rows)]

\* app.get("/me-distributor", verifyToken, ...); found is result.rows, and
\* row is result.rows[0] when there is one
MeDistributorReply(auth, fault, found, row) ==
    LET v == VerifyToken(auth)
        base == [NoReply EXCEPT !.route = "/me-distributor", !.auth = auth]
    IN IF v.http = 401 THEN [base EXCEPT !.http = 401, !.error = v.error]
       ELSE IF fault # "none"
            THEN [base EXCEPT !.fault = fault, !.http = 500, !.error = "Database error"]
            ELSE IF found = {}
                 THEN [base EXCEPT !.http = 404, !.error = "Distributor not found"]
                 ELSE [base EXCEPT !.http = 200, !.success = TRUE, !.data = row]

Init ==
    /\ orders \in InitTables
    /\ nextId = MaxId + 1
    /\ pc = "ready"
    /\ last = NoCall
    /\ customer = {}
    /\ reply = NoReply
    /\ tx = <<>>
    /\ admins = {}
    /\ signup = <<>>
    /\ pool = 0
    /\ health = <<>>

Call(h, order_no, body, fault, pre, res) ==
    [handler |-> h, order_no |-> order_no, body |-> body, fault |-> fault,
     pre |-> pre, prenid |-> nextId, post |-> res.db, nid |-> res.nid, http |-> res.http,
     error |-> res.error, data |-> res.data, operations |-> res.operations,
     trace |-> res.trace]

Put(h) ==
    /\ pc = "ready"
    /\ \E order_no \in OrderKeys \cup {BlankKey} :
         \E body \in Bodies(orders, order_no) :
           \E fault \in 0..Handle(h, orders, nextId, order_no, body, 0).n :
                /\ last' = Call(h, order_no, body, fault, orders,
                                Handle(h, orders, nextId, order_no, body, fault))
                /\ orders' = last'.post
                /\ nextId' = last'.nid
                /\ pc' = "responded"
                /\ UNCHANGED <<customer, reply, tx, admins, signup, pool, health>>

PutApp == Put("app")

PutRouter == Put("router")

Next == PutApp \/ PutRouter

Spec == Init /\ [][Next]_vars

(***************************************************************************)
(* POST /orders: app.post('/orders') of src/test.js and                    *)
(* router.post('/orders') of src/routes/orders.js.  An item carries its    *)
(* order_no ("" when the field is missing) and a quantity.                 *)
(***************************************************************************)
MkPostItem(k, q) == [order_no |-> k, quantity |-> q]

PostItems == {MkPostItem(k, 7) : k \in OrderKeys \cup {BlankKey, ""}}

PostBodies == SeqsUpTo(PostItems, MaxItems)

\* the ids RETURNING id INTO gave, one per insert
InsertedIds(nid, n) == [j \in 1..n |-> nid + j - 1]

(* An insert loop that commits each statement as it goes. *)
RECURSIVE AppPostInsertsAutoCommit(_, _)
AppPostInsertsAutoCommit(r, data) ==
    IF data = <<>> \/ r.err # NoError THEN r
    ELSE LET item == Head(data)
             r1 == Exec(r, Stmt("INSERT", <<r.nid>>, 36, 36),
                        InsertRow(r.rows, MkRow(r.nid, item.order_no, "", "", item.quantity)))
             r2 == IF r1.err = NoError THEN [r1 EXCEPT !.nid = @ + 1, !.db = r1.rows] ELSE r1
         IN AppPostInsertsAutoCommit(r2, Tail(data))

\* for (const item of data) { INSERT ... RETURNING id INTO :36 } with
\* autoCommit: false; the row takes the item's values as they are
RECURSIVE AppPostInserts(_, _)
AppPostInserts(r, data) ==
    IF data = <<>> \/ r.err # NoError THEN r
    ELSE LET item == Head(data)
             r1 == Exec(r, Stmt("INSERT", <<r.nid>>, 36, 36),
                        InsertRow(r.rows, MkRow(r.nid, item.order_no, "", "", item.quantity)))
             r2 == IF r1.err = NoError THEN [r1 EXCEPT !.nid = @ + 1] ELSE r1
         IN AppPostInserts(r2, Tail(data))

AppPost(db, nid, data, fault) ==
    LET r1 == Exec(StartRun(db, nid, fault), Stmt("getConnection", <<>>, 0, 0), db)
        r2 == Exec(r1, Stmt("BEGIN", <<>>, 0, 0), r1.rows)
        r3 == Commit(AppPostInserts(r2, data))
        r == IF r3.err # NoError /\ r1.err = NoError THEN Rollback(r3) ELSE r3
    IN IF Len(data) = 0 THEN Reject(db, nid, "NoOrders")
       ELSE IF r.err # NoError THEN Reply(r, 500, <<>>, Operations(0, 0, 0))
       ELSE Reply(r, 200, InsertedIds(nid, Len(data)), Operations(Len(data), 0, 0))

\* item.order_no?.trim() is empty: the map that builds the operations throws
PostInvalid(data) == {j \in 1..Len(data) : Trim(data[j].order_no) = ""}

\* the operations of the list, run by executeTransaction; order_no is
\* trimmed and status defaults to 'pending'
RECURSIVE RouterPostInserts(_, _)
RouterPostInserts(r, data) ==
    IF data = <<>> \/ r.err # NoError THEN r
    ELSE LET item == Head(data)
             r1 == Exec(r, Stmt("INSERT", <<r.nid>>, 36, 36),
                        InsertRow(r.rows, MkRow(r.nid, Trim(item.order_no), "", "pending",
                                                item.quantity)))
             r2 == IF r1.err = NoError THEN [r1 EXCEPT !.nid = @ + 1] ELSE r1
         IN RouterPostInserts(r2, Tail(data))

RouterPost(db, nid, data, fault) ==
    LET r1 == Exec(StartRun(db, nid, fault), Stmt("getConnection", <<>>, 0, 0), db)
        r2 == Commit(RouterPostInserts(r1, data))
        r == IF r2.err # NoError /\ r1.err = NoError THEN Rollback(r2) ELSE r2
    IN IF Len(data) = 0 THEN Reject(db, nid, "NoOrders")
       ELSE IF PostInvalid(data) # {}
            THEN Reply([StartRun(db, nid, 0) EXCEPT !.err = Err("OrderNoRequired", <<>>)],
                       500, <<>>, Operations(0, 0, 0))
       ELSE IF r.err # NoError THEN Reply(r, 500, <<>>, Operations(0, 0, 0))
       ELSE Reply(r, 200, InsertedIds(nid, Len(data)), Operations(Len(data), 0, 0))

PostHandle(h, db, nid, data, fault) ==
    IF h = "app" THEN AppPost(db, nid, data, fault) ELSE RouterPost(db, nid, data, fault)

Post(h) ==
    /\ pc = "ready"
    /\ \E data \in PostBodies :
         \E fault \in 0..PostHandle(h, orders, nextId, data, 0).n :
            /\ last' = Call(h, "", data, fault, orders,
                            PostHandle(h, orders, nextId, data, fault))
            /\ orders' = last'.post
            /\ nextId' = last'.nid
            /\ pc' = "responded"
    /\ UNCHANGED <<customer, reply, tx, admins, signup, pool, health>>

PostApp == Post("app")

PostRouter == Post("router")

PostNext == PostApp \/ PostRouter

PostSpec == Init /\ [][PostNext]_vars

CustomerInit ==
    /\ orders = {}
    /\ nextId = MaxId + 1
    /\ pc = "ready"
    /\ last = NoCall
    /\ customer \in CustomerTables
    /\ reply = NoReply
    /\ tx = <<>>
    /\ admins = {}
    /\ signup = <<>>
    /\ pool = 0
    /\ health = <<>>

GetCustomer ==
    /\ pc = "ready"
    /\ \E fault \in QueryFaults :
         \E rows \in SelectCustomers(customer) :
            reply' = CustomerReply(fault, rows)
    /\ pc' = "responded"
    /\ UNCHANGED <<orders, nextId, last, customer, tx, admins, signup, pool, health>>

GetMeDistributor ==
    /\ pc = "ready"
    /\ \E auth \in AuthHeaders :
         \E fault \in QueryFaults :
            LET found == SelectByUid(customer, VerifyToken(auth).uid)
            IN \E row \in found \cup {NoReply.data} :
                  /\ found # {} => row \in found
                  /\ reply' = MeDistributorReply(auth, fault, found, row)
    /\ pc' = "responded"
    /\ UNCHANGED <<orders, nextId, last, customer, tx, admins, signup, pool, health>>

PutCustomer(route) ==
    /\ pc = "ready"
    /\ \E code \in CustomerCodes \cup {MaxCustomers + 1} :
         \E updates \in UpdateBodies :
            \E fault \in QueryFaults :
               /\ reply' = CustomerUpdateReply(route, customer, code, updates, fault)
               /\ customer' = CustomerUpdateTable(customer, code, updates, fault)
    /\ pc' = "responded"
    /\ UNCHANGED <<orders, nextId, last, tx, admins, signup, pool, health>>

PutDistributor == PutCustomer("/distributors")

PutCorporate == PutCustomer("/corporates")

CustomerNext == GetCustomer \/ GetMeDistributor \/ PutDistributor \/ PutCorporate

CustomerSpec == CustomerInit /\ [][CustomerNext]_vars

(***************************************************************************)
(* Concurrent reconcile calls on one order key, statement by statement.    *)
(* Each call runs in its own transaction on its own connection: a          *)
(* statement sees the committed table and the rows its own transaction     *)
(* wrote; a row written by a transaction in flight is locked, and a        *)
(* statement of another transaction that would write it waits.  tx[p] is   *)
(* the call of client p: its handler, its sorted items, its position, the  *)
(* rows it wrote and has not committed.                                    *)
(***************************************************************************)
Procs == {1, 2}
ConcKey == "A"

\* the items of the concurrent calls: inserts, and updates that carry an
\* updatable field
ConcItems == {i \in Items : ~i.deleted /\ (i.id = NoId \/ "quantity" \in i.has)}

\* the tables they start from: rows of either order with the default header
ConcTables == {t \in InitTables : \A r \in t : r.customer_name = ""}

ConcBodies == {b \in SeqsUpTo(ConcItems, MaxItems - 1) : b # <<>>}

IdleTx ==
    [pc |-> "idle", h |-> "none", allItems |-> <<>>, orderExists |-> FALSE, seen |-> {},
     ui |-> 1, ii |-> 1, writes |-> {}, zero |-> FALSE, http |-> 0]

\* what a statement of p reads
View(p) ==
    {r \in orders : r.id \notin {w.id : w \in tx[p].writes}} \cup tx[p].writes

InFlight(q) == tx[q].pc \notin {"idle", "done"}

\* a stored row among ids is locked by a transaction other than p
LockedByOther(p, ids) ==
    \E q \in Procs \ {p} :
       /\ InFlight(q)
       /\ \E w \in tx[q].writes : w.id \in ids /\ \E r \in orders : r.id = w.id

\* catch: rollback, answer 500
Fail(t) == [t EXCEPT !.pc = "done", !.http = 500, !.writes = {}]

PcAfterInserts(t, ii) ==
    IF ii <= Len(ItemsToInsert(t.allItems)) THEN "insert"
    ELSE IF t.h = "app" THEN "common" ELSE "commit"

PcAfterUpdates(t, ui) ==
    IF ui <= Len(ItemsToUpdate(t.allItems))
    THEN (IF t.h = "app" THEN "verify" ELSE "update")
    ELSE PcAfterInserts(t, 1)

concOthers == <<pc, last, customer, reply, admins, signup, pool, health>>

\* the call arrives: validation passed, connection acquired
Begin(p) ==
    /\ tx[p].pc = "idle"
    /\ \E h \in Handlers : \E body \in ConcBodies :
         LET t == [IdleTx EXCEPT !.h = h, !.allItems = SortById(body)]
         IN tx' = [tx EXCEPT ![p] =
                     IF h = "app" THEN [t EXCEPT !.pc = "count"]
                     ELSE [t EXCEPT !.pc = PcAfterUpdates(t, 1),
                                    !.seen = {r.id : r \in {x \in orders : x.order_no = ConcKey}}]]
    /\ UNCHANGED <<orders, nextId, concOthers>>

\* test.js: SELECT COUNT ... and the 'does not exist' check
CountOrder(p) ==
    /\ tx[p].pc = "count"
    /\ LET t == tx[p]
           orderExists == SelectCount(View(p), ConcKey) > 0
       IN tx' = [tx EXCEPT ![p] =
                   IF ~orderExists /\ ItemsToInsert(t.allItems) = <<>> THEN Fail(t)
                   ELSE [t EXCEPT !.orderExists = orderExists, !.pc = PcAfterUpdates(t, 1)]]
    /\ UNCHANGED <<orders, nextId, concOthers>>

\* test.js: SELECT order_no FROM orders WHERE id = :1 and its two checks
VerifyItem(p) ==
    /\ tx[p].pc = "verify"
    /\ LET t == tx[p]
           id == ItemsToUpdate(t.allItems)[t.ui].id
           found == SelectOrderNo(View(p), id)
       IN tx' = [tx EXCEPT ![p] =
                   IF ~t.orderExists THEN [t EXCEPT !.pc = "update"]
                   ELSE IF found = {} \/ found # {ConcKey} THEN Fail(t)
                   ELSE [t EXCEPT !.pc = "update", !.seen = @ \cup {id}]]
    /\ UNCHANGED <<orders, nextId, concOthers>>

\* the UPDATE of one item; test.js throws when rowsAffected is 0, the
\* routes module does not look at it
UpdateItem(p) ==
    /\ tx[p].pc = "update"
    /\ LET t == tx[p]
           update == ItemsToUpdate(t.allItems)[t.ui]
           F == FilteredFields(update)
           n == RowsAffected(View(p), update.id, ConcKey)
           written == {r \in UpdateRow(View(p), update.id, ConcKey, update, F) :
                          r.id = update.id /\ r.order_no = ConcKey}
           t1 == [t EXCEPT !.ui = @ + 1, !.pc = PcAfterUpdates(t, t.ui + 1)]
           t2 == [t1 EXCEPT !.writes = {w \in @ : w.id # update.id} \cup written,
                            !.zero = @ \/ (n = 0 /\ update.id \in t.seen)]
       IN /\ F # {} => ~LockedByOther(p, {update.id})
          /\ tx' = [tx EXCEPT ![p] =
                      IF F = {} THEN t1
                      ELSE IF n = 0 /\ t.h = "app" THEN [Fail(t) EXCEPT !.zero = t2.zero]
                      ELSE t2]
    /\ UNCHANGED <<orders, nextId, concOthers>>

\* the INSERT of one item
InsertItem(p) ==
    /\ tx[p].pc = "insert"
    /\ LET t == tx[p]
           item == ItemsToInsert(t.allItems)[t.ii]
           row == IF t.h = "app"
                  THEN AppInsertItem(nextId, ConcKey, CommonOrderDetails(t.allItems), item)
                  ELSE RouterInsertData(nextId, ConcKey, item)
       IN tx' = [tx EXCEPT ![p] = [t EXCEPT !.writes = @ \cup {row}, !.ii = @ + 1,
                                            !.pc = PcAfterInserts(t, t.ii + 1)]]
    /\ nextId' = nextId + 1
    /\ UNCHANGED <<orders, concOthers>>

\* test.js: UPDATE orders SET <common fields> WHERE order_no = :15
PropagateCommon(p) ==
    /\ tx[p].pc = "common"
    /\ LET t == tx[p]
           written == {r \in UpdateCommon(View(p), ConcKey, CommonOrderDetails(t.allItems)) :
                          r.order_no = ConcKey}
       IN /\ ~LockedByOther(p, {r.id : r \in written})
          /\ tx' = [tx EXCEPT ![p] =
                      [t EXCEPT !.writes = {w \in @ : w.id \notin {r.id : r \in written}}
                                              \cup written,
                                !.pc = "commit"]]
    /\ UNCHANGED <<orders, nextId, concOthers>>

\* connection.commit()
CommitTx(p) ==
    /\ tx[p].pc = "commit"
    /\ orders' = View(p)
    /\ tx' = [tx EXCEPT ![p] = [@ EXCEPT !.pc = "done", !.http = 200, !.writes = {}]]
    /\ UNCHANGED <<nextId, concOthers>>

\* another client's call through the routes module deletes a row of the
\* order and commits
DeleteCommitted ==
    /\ \E p \in Procs : InFlight(p)
    /\ \E r \in {x \in orders : x.order_no = ConcKey} :
         /\ \A p \in Procs : ~(InFlight(p) /\ r.id \in {w.id : w \in tx[p].writes})
         /\ orders' = RouterPut(orders, nextId, ConcKey,
                                <<MkItem(r.id, TRUE, {}, "", "", 0)>>, 0).db
    /\ UNCHANGED <<nextId, tx, concOthers>>

ConcInit ==
    /\ orders \in ConcTables
    /\ nextId = MaxId + 1
    /\ pc = "ready"
    /\ last = NoCall
    /\ customer = {}
    /\ reply = NoReply
    /\ tx = [p \in Procs |-> IdleTx]
    /\ admins = {}
    /\ signup = <<>>
    /\ pool = 0
    /\ health = <<>>

ConcNext ==
    \/ \E p \in Procs :
          \/ Begin(p)
          \/ CountOrder(p)
          \/ VerifyItem(p)
          \/ UpdateItem(p)
          \/ InsertItem(p)
          \/ PropagateCommon(p)
          \/ CommitTx(p)
    \/ DeleteCommitted

ConcSpec == ConcInit /\ [][ConcNext]_vars

(***************************************************************************)
(* POST /signup-admin of src/test.js.  The handler runs two statements,    *)
(* each through executeQuery on a connection of its own: the SELECT that   *)
(* looks for a row of the uid or the email, then the INSERT with           *)
(* autoCommit.  Requests are served concurrently, so the statements of two *)
(* calls interleave.  The schema of the admins table is not part of the    *)
(* source: whether it carries a unique index on firebase_uid and email is  *)
(* chosen once per behaviour (signup.unique).                              *)
(***************************************************************************)
MaxAdmins == 2

WellFormedEmails == {"a@x.io", "b@x.io"}
SignupEmails == WellFormedEmails \cup {"", "a-x.io"}
Usernames == {"", "root"}

\* emailRegex.test(email): local part, "@", domain, ".", suffix
EmailRegexTest(email) == email \in WellFormedEmails

MkAdmin(id, uid, email) == [id |-> id, firebase_uid |-> uid, email |-> email]

\* SELECT * FROM admins WHERE firebase_uid = :1 OR email = :2
SelectAdmin(rows, uid, email) ==
    {r \in rows : r.firebase_uid = uid \/ r.email = email}

IdleSignup ==
    [pc |-> "idle", uid |-> NoUid, email |-> "", http |-> 0, message |-> "",
     existed |-> FALSE, inserted |-> 0]

SignupDone(s, http, message) ==
    [s EXCEPT !.pc = "done", !.http = http, !.message = message]

adminOthers == <<orders, nextId, pc, last, customer, reply, tx, pool, health>>

\* verifyToken and the validation of the body, before any statement
SignupRequest(p) ==
    /\ signup.call[p].pc \in {"idle", "done"}
    /\ Cardinality(admins) < MaxAdmins
    /\ \E auth \in AuthHeaders, username \in Usernames, email \in SignupEmails :
          LET v == VerifyToken(auth)
              s == [IdleSignup EXCEPT !.uid = v.uid, !.email = email]
          IN  signup' = [signup EXCEPT !.call[p] =
                 IF v.http = 401 THEN SignupDone(s, 401, v.error)
                 ELSE IF username = "" \/ email = ""
                      THEN SignupDone(s, 400, "Username and email are required")
                 ELSE IF ~EmailRegexTest(email)
                      THEN SignupDone(s, 400, "Invalid email format")
                 ELSE [s EXCEPT !.pc = "check"]]
    /\ UNCHANGED <<admins, adminOthers>>

\* the check: a row of the uid or of the email answers "Admin already exists"
CheckAdmin(p) ==
    /\ signup.call[p].pc = "check"
    /\ \E fault \in QueryFaults :
          LET s == signup.call[p]
          IN  signup' = [signup EXCEPT !.call[p] =
                 IF fault # "none" THEN SignupDone(s, 500, fault)
                 ELSE IF SelectAdmin(admins, s.uid, s.email) # {}
                      THEN SignupDone(s, 200, "Admin already exists")
                 ELSE [s EXCEPT !.pc = "insert"]]
    /\ UNCHANGED <<admins, adminOthers>>

\* the INSERT with autoCommit: it commits as it runs, unless a unique index
\* rejects it
InsertAdmin(p) ==
    /\ signup.call[p].pc = "insert"
    /\ \E fault \in QueryFaults :
          LET s == signup.call[p]
              found == SelectAdmin(admins, s.uid, s.email) # {}
              id == Cardinality(admins) + 1
              t == [s EXCEPT !.existed = found]
          IN  IF fault # "none"
              THEN /\ signup' = [signup EXCEPT !.call[p] = SignupDone(t, 500, fault)]
                   /\ UNCHANGED admins
              ELSE IF signup.unique /\ found
              THEN /\ signup' = [signup EXCEPT !.call[p] =
                         SignupDone(t, 500, "ORA-00001")]
                   /\ UNCHANGED admins
              ELSE /\ admins' = admins \cup {MkAdmin(id, s.uid, s.email)}
                   /\ signup' = [signup EXCEPT !.call[p] =
                         SignupDone([t EXCEPT !.inserted = id], 201,
                                    "Admin signup successful")]
    /\ UNCHANGED adminOthers

AdminInit ==
    /\ orders = {}
    /\ nextId = 1
    /\ pc = "ready"
    /\ last = NoCall
    /\ customer = {}
    /\ reply = NoReply
    /\ tx = <<>>
    /\ admins = {}
    /\ signup \in [unique : BOOLEAN, call : {[p \in Procs |-> IdleSignup]}]
    /\ pool = 0
    /\ health = <<>>

AdminNext ==
    \E p \in Procs :
       \/ SignupRequest(p)
       \/ CheckAdmin(p)
       \/ InsertAdmin(p)

AdminSpec == AdminInit /\ [][AdminNext]_vars

(***************************************************************************)
(* The health checks: GET /api/health of src/test.js and GET /health of    *)
(* the application src/routes/orders.js creates.  Each takes a connection  *)
(* from the pool, runs the probe query and closes the connection, all in   *)
(* one try block whose catch only sets the status it reports.  pool.busy   *)
(* counts the connections checked out of the pool.                         *)
(***************************************************************************)
PoolMax == 2

HealthHandlers == {"app", "router"}

IdleHealth == [pc |-> "idle", conn |-> FALSE, oracle |-> "", http |-> 0]

healthOthers == <<orders, nextId, pc, last, customer, reply, tx, admins, signup>>

\* let oracleStatus = "Disconnected"; if (pool) ...
HealthRequest(h) ==
    /\ health[h].pc \in {"idle", "done"}
    /\ health' = [health EXCEPT ![h] =
          [IdleHealth EXCEPT !.oracle = "Disconnected",
                             !.pc = IF pool.open THEN "getConnection" ELSE "respond"]]
    /\ UNCHANGED <<pool, healthOthers>>

\* conn = await pool.getConnection(): it throws when the pool has no
\* connection to give within the queue timeout
HealthGetConnection(h) ==
    /\ health[h].pc = "getConnection"
    /\ IF pool.busy < PoolMax
       THEN /\ pool' = [pool EXCEPT !.busy = @ + 1]
            /\ health' = [health EXCEPT ![h].conn = TRUE, ![h].pc = "execute"]
       ELSE /\ health' = [health EXCEPT ![h].oracle = "Connection Error",
                                        ![h].pc = "respond"]
            /\ UNCHANGED pool
    /\ UNCHANGED healthOthers

\* await conn.execute("SELECT 1 FROM dual"); oracleStatus = "Connected":
\* when the query throws, control goes to the catch, past the close
HealthExecute(h) ==
    /\ health[h].pc = "execute"
    /\ \E ok \in BOOLEAN :
          health' = [health EXCEPT ![h] =
             IF ok THEN [@ EXCEPT !.oracle = "Connected", !.pc = "close"]
                   ELSE [@ EXCEPT !.oracle = "Connection Error", !.pc = "respond"]]
    /\ UNCHANGED <<pool, healthOthers>>

\* await conn.close()
HealthClose(h) ==
    /\ health[h].pc = "close"
    /\ pool' = [pool EXCEPT !.busy = @ - 1]
    /\ health' = [health EXCEPT ![h].conn = FALSE, ![h].pc = "respond"]
    /\ UNCHANGED healthOthers

\* res.json({status: "OK", oracle: oracleStatus, ...})
HealthRespond(h) ==
    /\ health[h].pc = "respond"
    /\ health' = [health EXCEPT ![h].pc = "done", ![h].http = 200]
    /\ UNCHANGED <<pool, healthOthers>>

HealthInit ==
    /\ orders = {}
    /\ nextId = 1
    /\ pc = "ready"
    /\ last = NoCall
    /\ customer = {}
    /\ reply = NoReply
    /\ tx = <<>>
    /\ admins = {}
    /\ signup = <<>>
    /\ pool \in [open : BOOLEAN, busy : {0}]
    /\ health = [h \in HealthHandlers |-> IdleHealth]

HealthNext ==
    \E h \in HealthHandlers :
       \/ HealthRequest(h)
       \/ HealthGetConnection(h)
       \/ HealthExecute(h)
       \/ HealthClose(h)
       \/ HealthRespond(h)

HealthSpec == HealthInit /\ [][HealthNext]_vars

TypeOK ==
    /\ \A r \in orders : r.id \in 1..(nextId - 1) /\ r.order_no \in OrderKeys
    /\ \A r1, r2 \in orders : r1.id = r2.id => r1 = r2
    /\ pc \in {"ready", "responded"}
    /\ last.http \in {0, 200, 400, 500}

(***************************************************************************)
(* Vocabulary of the properties.                                           *)
(***************************************************************************)
Responded == pc = "responded"

Succeeded == Responded /\ last.http = 200

RowsOf(rows, k) == {r \in rows : r.order_no = k}

IdsOf(rows) == {r.id : r \in rows}

(* The statement on which the call's error arose, when a statement failed. *)
FailedStmt == last.trace[Len(last.trace)]

StatementFailed == last.error.kind \in {"StorageError", "BindError"}

MutationSteps == {"SELECT id", "DELETE", "SELECT order_no", "UPDATE", "INSERT",
                  "UPDATE common"}

VerificationErrors == {"CannotDelete", "ItemNotExist", "WrongOrder", "NoRecord"}

(* A verification, delete, update, insert or header-propagation step failed. *)
StepFailed ==
    /\ Responded
    /\ \/ last.error.kind \in VerificationErrors
       \/ StatementFailed /\ FailedStmt.op \in MutationSteps

(* C1: if a verification, delete, update, insert or header-propagation     *)
(* step of a call on order key K fails, the rows stored for K after the    *)
(* call are exactly the rows stored for K before it.                       *)
C1_Atomicity ==
    StepFailed => RowsOf(orders, last.order_no) = RowsOf(last.pre, last.order_no)

(* A call whose header propagation failed after an insert had been made,   *)
(* and one whose second update failed after its first had changed a row.   *)
C1_Witness ==
    /\ StepFailed
    /\ \E i \in 1..(Len(last.trace) - 1) :
          /\ last.trace[i].op \in {"INSERT", "UPDATE", "DELETE"}
          /\ \/ last.trace[i].op = "INSERT"
             \/ IdsOf(RowsOf(last.pre, last.order_no)) \cap Range(last.trace[i].ids) # {}

(* C2: a call that answers an error has committed nothing, whichever step  *)
(* raised the error.                                                       *)
C2_ErrorCommitsNothing ==
    (Responded /\ last.http # 200) => orders = last.pre

(* C3: after a successful call on K every row of K holds, in each          *)
(* order-level field, the value of the common fields computed in the call. *)
C3_Denormalized ==
    Succeeded =>
        \A r \in RowsOf(orders, last.order_no) :
            \A f \in CommonFields :
                r[f] = CommonOrderDetails(SortById(last.body))[f]

(* C4: no call on K, successful or not, inserts, changes or deletes a row  *)
(* whose order_no differs from K.                                          *)
C4_NoCrossOrderMutation ==
    Responded =>
        {r \in orders : r.order_no # last.order_no}
            = {r \in last.pre : r.order_no # last.order_no}

(* A successful call that changed its own order while an item named, for   *)
(* update or for deletion, the id of a row of the other order.             *)
C4_Witness ==
    /\ Succeeded
    /\ orders # last.pre
    /\ \E j \in 1..Len(last.body) :
          \E r \in last.pre :
              r.id = last.body[j].id /\ r.order_no # last.order_no

(* The row of the table before the call that carries id, if any. *)
PreRows(id) == {r \in last.pre : r.id = id}

NoFault == last.fault = 0

(* C5: a call on key B whose items contain an update item with the id of a *)
(* row stored under another order A does not return success.               *)
C5_CrossOrderGuard ==
    (/\ Responded
     /\ \E j \in 1..Len(last.body) :
           /\ IsUpdate(last.body[j])
           /\ \E r \in PreRows(last.body[j].id) : r.order_no # last.order_no)
        => last.http # 200

(* The ids a call asks to delete that are not ids of rows of its order. *)
ForeignDeleteIds ==
    {last.body[j].id : j \in {l \in 1..Len(last.body) : IsDelete(last.body[l])}}
        \ IdsOf(RowsOf(last.pre, last.order_no))

(* C6: if an id of the delete set does not belong to the requested order,  *)
(* the call fails and no row is deleted.                                   *)
C6_DeleteVerified ==
    (Responded /\ ForeignDeleteIds # {})
        => last.http # 200 /\ IdsOf(last.pre) \subseteq IdsOf(orders)

(* C7: on an order whose rows all carry customer_name = v, not blank, a    *)
(* call that submits a new item lacking customer_name succeeds and leaves  *)
(* customer_name = v on every row of the order.                            *)
C7_HeaderPreserved ==
    (/\ Responded
     /\ NoFault
     /\ RowsOf(last.pre, last.order_no) # {}
     /\ \A r \in RowsOf(last.pre, last.order_no) : r.customer_name = "Acme"
     /\ Len(last.body) = 1
     /\ IsInsert(last.body[1])
     /\ "customer_name" \notin last.body[1].has)
        => /\ last.http = 200
           /\ \A r \in RowsOf(orders, last.order_no) : r.customer_name = "Acme"

(* C8: a call whose items are exactly the current rows of an existing      *)
(* order returns inserted = 0, updated = 0, deleted = 0 and the same rows. *)
C8_IdempotentNoOp ==
    (/\ Responded
     /\ NoFault
     /\ RowsOf(last.pre, last.order_no) # {}
     /\ last.body = EchoItems(last.pre, last.order_no))
        => /\ last.http = 200
           /\ last.operations = Operations(0, 0, 0)
           /\ last.data = SelectByOrderNo(last.pre, last.order_no)

(* A mixed batch: one update of a row of the order that sets quantity, one *)
(* deletion of another row of the order and one new item, in any order.    *)
MixedBatch(u, d, n) ==
    /\ Len(last.body) = 3
    /\ {u, d, n} = {1, 2, 3}
    /\ IsUpdate(last.body[u]) /\ "quantity" \in last.body[u].has
    /\ IsDelete(last.body[d])
    /\ IsInsert(last.body[n])
    /\ last.body[u].id # last.body[d].id
    /\ {last.body[u].id, last.body[d].id} \subseteq IdsOf(RowsOf(last.pre, last.order_no))

(* C9: a mixed batch succeeds with updated = 1, deleted = 1, inserted = 1; *)
(* the final rows are the prior rows minus the deleted row, the update     *)
(* applied to its row, plus the newly inserted row.                        *)
C9_MixedBatch ==
    \A u, d, n \in 1..3 :
        (Responded /\ NoFault /\ MixedBatch(u, d, n)) =>
            /\ last.http = 200
            /\ last.operations = Operations(1, 1, 1)
            /\ IdsOf(RowsOf(orders, last.order_no))
                 = (IdsOf(RowsOf(last.pre, last.order_no)) \ {last.body[d].id})
                       \cup {last.prenid}
            /\ \A r \in RowsOf(orders, last.order_no) :
                   r.id = last.body[u].id => r.quantity = last.body[u].quantity
            /\ {r \in orders : r.order_no # last.order_no}
                 = {r \in last.pre : r.order_no # last.order_no}

(* The items of the body but the one at position j. *)
Without(body, j) == SubSeq(body, 1, j - 1) \o SubSeq(body, j + 1, Len(body))

IsNoOp(i) == i.deleted /\ i.id = NoId

(* What the caller and the table see of a call. *)
Outcome(res) ==
    [http |-> res.http, error |-> res.error, data |-> res.data,
     operations |-> res.operations, post |-> res.db, trace |-> res.trace]

LastOutcome ==
    [http |-> last.http, error |-> last.error, data |-> last.data,
     operations |-> last.operations, post |-> last.post, trace |-> last.trace]

SameAsWithout(j) ==
    LastOutcome = Outcome(Handle(last.handler, last.pre, last.prenid, last.order_no,
                                 Without(last.body, j), last.fault))

C11_EmptyListOnExistingOrder ==
    (/\ Responded
     /\ last.body = <<>>
     /\ RowsOf(last.pre, last.order_no) # {})
        => last.http # 400 /\ last.error.kind # "NoData"

(* C12: on success the call returns the rows stored for the order key      *)
(* after the commit, every one of them and no row of another order, in     *)
(* strictly ascending id order.                                            *)
C12_ReadBack ==
    Succeeded =>
        /\ Range(last.data) = RowsOf(orders, last.order_no)
        /\ \A i, j \in 1..Len(last.data) : i < j => last.data[i].id < last.data[j].id

(* A successful call that changed the order, returned two rows or more and *)
(* left rows of the other order in the table.                              *)
C12_Witness ==
    /\ Succeeded
    /\ Len(last.data) >= 2
    /\ RowsOf(orders, last.order_no) # RowsOf(last.pre, last.order_no)
    /\ \E r \in orders : r.order_no # last.order_no

(* The update statements of the call that met a row of the order. *)
AppliedUpdates ==
    {i \in 1..Len(last.trace) :
        /\ last.trace[i].op = "UPDATE"
        /\ Range(last.trace[i].ids) \cap IdsOf(RowsOf(last.pre, last.order_no)) # {}}

(* C13: on success the counts returned are what the call did: the rows     *)
(* inserted, the rows an update statement was applied to, the rows removed.*)
C13_CountsAreEffects ==
    Succeeded =>
        /\ last.operations.inserted = Cardinality(IdsOf(orders) \ IdsOf(last.pre))
        /\ last.operations.deleted = Cardinality(IdsOf(last.pre) \ IdsOf(orders))
        /\ last.operations.updated = Cardinality(AppliedUpdates)

OtherHandler == IF last.handler = "app" THEN "router" ELSE "app"

(* C14: for the same key, items and table, the two handlers yield the same *)
(* outcome (success or failure) and the same final rows.                   *)
C14_HandlersEquivalent ==
    (Responded /\ NoFault) =>
        LET other == Handle(OtherHandler, last.pre, last.prenid, last.order_no,
                            last.body, 0)
        IN /\ (last.http = 200) = (other.http = 200)
           /\ orders = other.db

(* C15: every 200 answer of GET /me-distributor is given to a request      *)
(* whose bearer token was verified, has success = true and carries the     *)
(* customer row whose firebase_uid is the token's uid, and that row has    *)
(* role 'distributor'.                                                     *)
C15_MeDistributor ==
    (reply.route = "/me-distributor" /\ reply.http = 200) =>
        /\ reply.auth.scheme = "Bearer"
        /\ VerifyIdToken(reply.auth.token) # NoUid
        /\ reply.success
        /\ \E r \in customer :
              /\ r.firebase_uid = VerifyIdToken(reply.auth.token)
              /\ r.customer_code = reply.data.customer_code
              /\ r.customer_name = reply.data.customer_name
              /\ r.role = reply.data.role
        /\ reply.data.role = "distributor"

(* C16: when its query does not fail, GET /customer answers 200 with the   *)
(* rows of the customer table as a list, each row once, and count equal to *)
(* the length of that list, the empty table included.                      *)
C16_CustomerList ==
    (pc = "responded" /\ reply.route = "/customer" /\ reply.fault = "none") =>
        /\ reply.http = 200
        /\ Range(reply.data) = customer
        /\ Len(reply.data) = Cardinality(customer)
        /\ reply.count = Len(reply.data)

(* GET /customer answered on the empty table. *)
C16_Witness ==
    /\ reply.route = "/customer"
    /\ reply.http = 200
    /\ customer = {}

(* The phase of a statement in the fixed order of a call; 0 for the       *)
(* statements that open a connection or a transaction or count the rows.   *)
Phase(op) ==
    CASE op \in {"SELECT id", "DELETE"} -> 1
      [] op \in {"SELECT order_no", "UPDATE"} -> 2
      [] op = "INSERT" -> 3
      [] op = "UPDATE common" -> 4
      [] op = "COMMIT" -> 5
      [] op = "SELECT rows" -> 6
      [] OTHER -> 0

TraceOps(op) == {i \in 1..Len(last.trace) : last.trace[i].op = op}

(* C17: in every call the statements come in the fixed order: deletions,   *)
(* then updates, then insertions, then header propagation, then commit;    *)
(* the header written is computed from the request alone, before any       *)
(* mutation.                                                               *)
C17_StepOrder ==
    Responded =>
        /\ \A i, j \in 1..Len(last.trace) :
              (i < j /\ Phase(last.trace[i].op) > 0 /\ Phase(last.trace[j].op) > 0)
                  => Phase(last.trace[i].op) <= Phase(last.trace[j].op)
        /\ \A p \in TraceOps("UPDATE common") :
              /\ \A i \in TraceOps("DELETE") \cup TraceOps("UPDATE") \cup TraceOps("INSERT") : i < p
              /\ \A c \in TraceOps("COMMIT") : p < c
        /\ (Succeeded /\ TraceOps("UPDATE common") # {}) =>
              \A r \in RowsOf(orders, last.order_no) :
                 /\ r.customer_name = CommonOrderDetails(SortById(last.body)).customer_name
                 /\ r.status = CommonOrderDetails(SortById(last.body)).status

(* A committed call that issued deletions, updates and insertions. *)
C17_Witness ==
    /\ Succeeded
    /\ TraceOps("DELETE") # {}
    /\ TraceOps("UPDATE") # {}
    /\ TraceOps("INSERT") # {}
    /\ TraceOps("COMMIT") # {}

IsEffectiveUpdate(i) == IsUpdate(i) /\ FilteredFields(i) # {}

IsUpdateStmt(st) == st.op = "UPDATE"

(* The ids of the per-item update statements, in the order they ran. *)
UpdateIdsInTrace ==
    LET u == SelectSeq(last.trace, IsUpdateStmt)
    IN [j \in 1..Len(u) |-> u[j].ids[1]]

(* The ids of the update items that carry an updatable field, as submitted. *)
UpdateIdsInBody ==
    LET u == SelectSeq(last.body, IsEffectiveUpdate)
    IN [j \in 1..Len(u) |-> u[j].id]

(* The quantity of the rows the call inserted, by ascending id, and the    *)
(* quantity asked for by the insert items, as submitted.                   *)
InsertedQuantities ==
    LET new == OrderById({r \in orders : r.id \notin IdsOf(last.pre)})
    IN [j \in 1..Len(new) |-> new[j].quantity]

InsertQuantitiesInBody ==
    LET ins == SelectSeq(last.body, IsInsert)
    IN [j \in 1..Len(ins) |-> OrElseNum(ins[j], "quantity", 0)]

(* C18 as stated: updates run in the order of the submitted list, and so   *)
(* do inserts.                                                             *)
C18_SubmittedOrder ==
    Succeeded =>
        /\ UpdateIdsInTrace = UpdateIdsInBody
        /\ InsertedQuantities = InsertQuantitiesInBody

(* C18 amended: updates run by ascending id, each update item that carries *)
(* an updatable field once; inserts run in the order of the submitted list.*)
C18_ApplyOrder ==
    Succeeded =>
        /\ \A i, j \in 1..Len(UpdateIdsInTrace) :
              i < j => UpdateIdsInTrace[i] <= UpdateIdsInTrace[j]
        /\ Len(UpdateIdsInTrace) = Len(UpdateIdsInBody)
        /\ \A id \in 1..MaxId :
              Cardinality({j \in 1..Len(UpdateIdsInTrace) : UpdateIdsInTrace[j] = id})
                 = Cardinality({j \in 1..Len(UpdateIdsInBody) : UpdateIdsInBody[j] = id})
        /\ InsertedQuantities = InsertQuantitiesInBody

(* A committed call whose two updates were submitted by descending id. *)
C18_Witness ==
    /\ Succeeded
    /\ Len(UpdateIdsInTrace) >= 2
    /\ UpdateIdsInTrace # UpdateIdsInBody

HasId(i) == i.id # NoId

(* The order-level values an item supplies. *)
HeaderOf(item) ==
    [f \in CommonFields |-> IF f \in item.has THEN item[f] ELSE DefaultOrderDetails[f]]

(* The first non-deletion item with an id in the submitted list, else the  *)
(* first non-deletion item.                                                *)
FirstSubmitted(body) ==
    LET valid == SelectSeq(body, IsValid)
        withId == SelectSeq(valid, HasId)
    IN IF withId # <<>> THEN withId[1] ELSE valid[1]

(* The non-deletion item of smallest id, the first submitted of them when  *)
(* several share it, else the first non-deletion item.                     *)
SmallestId(body) ==
    LET valid == SelectSeq(body, IsValid)
        withId == SelectSeq(valid, HasId)
    IN IF withId # <<>>
       THEN withId[CHOOSE j \in 1..Len(withId) :
                      /\ \A l \in 1..Len(withId) : withId[j].id <= withId[l].id
                      /\ \A l \in 1..(j - 1) : withId[l].id # withId[j].id]
       ELSE valid[1]

(* A call of the monolithic handler that committed a propagated header     *)
(* taken from an item.                                                     *)
HeaderSourced ==
    /\ Succeeded
    /\ last.handler = "app"
    /\ SelectSeq(last.body, IsValid) # <<>>

HeaderWritten(h) ==
    \A r \in RowsOf(orders, last.order_no) :
       r.customer_name = h.customer_name /\ r.status = h.status

(* C19 as stated: the header comes from the first item, in submitted       *)
(* order, among the non-deletion items with an id, else from the first     *)
(* non-deletion item.                                                      *)
C19_FirstSubmittedItem == HeaderSourced => HeaderWritten(HeaderOf(FirstSubmitted(last.body)))

(* C19 amended: the header comes from the non-deletion item with the       *)
(* smallest id, else from the first non-deletion item in submitted order.  *)
C19_PriorityItem == HeaderSourced => HeaderWritten(HeaderOf(SmallestId(last.body)))

(* A committed call in which the first submitted item with an id is not    *)
(* the one of smallest id and the two supply different headers.            *)
C19_Witness ==
    /\ HeaderSourced
    /\ RowsOf(orders, last.order_no) # {}
    /\ HeaderOf(FirstSubmitted(last.body)) # HeaderOf(SmallestId(last.body))

(* The per-item update and delete statements of the call that name an id. *)
TargetingStmts(id) ==
    {i \in 1..Len(last.trace) :
        /\ last.trace[i].op \in {"UPDATE", "DELETE"}
        /\ id \in Range(last.trace[i].ids)}

(* C20: within one call each stored row is the target of at most one       *)
(* per-item update or delete statement, and on success each new item has   *)
(* yielded exactly one insert.                                             *)
C20_ExactlyOnce ==
    Responded =>
        /\ \A id \in IdsOf(last.pre) : Cardinality(TargetingStmts(id)) <= 1
        /\ Succeeded =>
              /\ Cardinality(TraceOps("INSERT")) = Len(SelectSeq(last.body, IsInsert))
              /\ Cardinality(IdsOf(orders) \ IdsOf(last.pre)) = Len(SelectSeq(last.body, IsInsert))

(* An update item none of whose fields is in the allow-list. *)
IsSkippable(i) == IsUpdate(i) /\ i.has \cap {"status", "quantity"} = {}

(* The per-row columns of a table. *)
PerRow(rows) == {<<r.id, r.order_no, r.quantity>> : r \in rows}

(* The call without item j of its list, on the same table. *)
CallWithout(j) ==
    Handle(last.handler, last.pre, last.prenid, last.order_no, Without(last.body, j), 0)

(* Item j is skipped: the update statements that name its id are those of  *)
(* the other update items; with other items in the list the call succeeds  *)
(* exactly when it does without item j, with the same per-row values; as   *)
(* only item of an order that exists, the call succeeds.                   *)
SkippedWithoutFailing(j) ==
    /\ Cardinality(TargetingStmts(last.body[j].id))
          <= Cardinality({l \in 1..Len(last.body) :
                             /\ last.body[l].id = last.body[j].id
                             /\ ~IsSkippable(last.body[l])
                             /\ (IsUpdate(last.body[l]) \/ IsDelete(last.body[l]))})
    /\ Len(last.body) > 1 =>
          /\ (last.http = 200) = (CallWithout(j).http = 200)
          /\ last.http = 200 => PerRow(orders) = PerRow(CallWithout(j).db)
    /\ (Len(last.body) = 1 /\ RowsOf(last.pre, last.order_no) # {}) => last.http = 200

(* The row of item j passes the ownership verification of the handler.     *)
PassesVerification(j) ==
    \/ last.handler = "router"
    \/ RowsOf(last.pre, last.order_no) = {}
    \/ last.body[j].id \in IdsOf(RowsOf(last.pre, last.order_no))

RequestedDeleteIds ==
    {last.body[j].id : j \in {l \in 1..Len(last.body) : IsDelete(last.body[l])}}

(* C23: whenever delete verification fails, the error lists exactly the    *)
(* requested delete ids that do not belong to the order, and the list is   *)
(* not empty.                                                              *)
C23_MissingIdsListed ==
    (Responded /\ last.error.kind = "CannotDelete") =>
        /\ last.error.ids # <<>>
        /\ Range(last.error.ids) = ForeignDeleteIds

(* The defaults a call writes when its priority item supplies part of the  *)
(* header or when every item is a deletion.                                *)
DefaultedFields ==
    IF SelectSeq(last.body, IsValid) = <<>> THEN CommonFields
    ELSE CommonFields \ SmallestId(last.body).has

(* C25: in a successful call, every order-level field the priority item    *)
(* does not supply, and every order-level field when all items are         *)
(* deletions, holds its default in every row of the order afterwards.      *)
C25_DefaultsOverwrite ==
    Succeeded =>
        \A r \in RowsOf(orders, last.order_no) :
           \A f \in DefaultedFields : r[f] = DefaultOrderDetails[f]

(* The connection events of the call, for either outcome of a rollback. *)
LastConnLog(rollbackFails) == ConnLog(last.handler, last.trace, last.error, rollbackFails)

EventsOf(log, ev, c) == {i \in 1..Len(log) : log[i].ev = ev /\ log[i].c = c}

(* Connection c is released once, after it was acquired and after a commit *)
(* or a rollback of the call, and is not used afterwards.                  *)
ReleasedOnce(log, c) ==
    /\ Cardinality(EventsOf(log, "acquire", c)) = 1
    /\ Cardinality(EventsOf(log, "close", c)) = 1
    /\ \A i \in 1..Len(log) :
          log[i].c = c =>
             /\ \A a \in EventsOf(log, "acquire", c) : a <= i
             /\ \A k \in EventsOf(log, "close", c) : i <= k
    /\ \A k \in EventsOf(log, "close", c) :
          \E i \in 1..(k - 1) : log[i].ev \in {"commit", "rollback", "rollback failed"}

ScopeHolds(log) ==
    /\ \A i \in 1..Len(log) : ReleasedOnce(log, log[i].c)
    /\ last.http = 400 => log = <<>>
    /\ (last.http # 400 /\ last.fault # 1) => log # <<>>

(* C24: every connection a call acquires is released exactly once, after   *)
(* the call's transaction was committed or rolled back, on the success     *)
(* path and on every failure path, a failing rollback included; a call     *)
(* rejected by validation acquires no connection.                          *)
C24_TransactionalScope ==
    Responded =>
        \A rollbackFails \in BOOLEAN : ScopeHolds(LastConnLog(rollbackFails))

(* A call that failed on a statement after it got its connection, whose    *)
(* rollback fails too.                                                     *)
C24_Witness ==
    /\ Responded
    /\ last.http = 500
    /\ EventsOf(LastConnLog(TRUE), "rollback failed", 1) # {}
    /\ EventsOf(LastConnLog(TRUE), "close", 1) # {}

(* C27: a success answer of PUT /distributors/:customer_code or            *)
(* PUT /corporates/:customer_code is sent only after the update was        *)
(* committed: the customer row holds the submitted allow-listed values     *)
(* once the connection is released.                                        *)
C27_UpdateCommitted ==
    (reply.route \in {"/distributors", "/corporates"} /\ reply.http = 200) =>
        \E r \in customer :
           /\ r.customer_code = reply.code
           /\ \A f \in reply.updates.has \cap {"customer_name", "role", "firebase_uid"} :
                 r[f] = reply.updates[f]

(* The rows a POST /orders call added to the table. *)
PostedRows == {r \in orders : r.id \notin IdsOf(last.pre)}

(* C28: POST /orders is all-or-nothing: either every item of the array is  *)
(* inserted and committed and one generated id per item is returned, or    *)
(* no row of the batch is persisted; the latter whenever an item fails the *)
(* order_no validation or an insert statement fails.                       *)
C28_AllOrNothing ==
    Responded =>
        /\ \/ /\ last.http = 200
              /\ last.pre \subseteq orders
              /\ Cardinality(PostedRows) = Len(last.body)
              /\ Len(last.data) = Len(last.body)
              /\ Range(last.data) = IdsOf(PostedRows)
           \/ /\ last.http # 200
              /\ orders = last.pre
        /\ (last.error.kind \in {"OrderNoRequired", "StorageError"}) =>
              last.http # 200 /\ orders = last.pre
        /\ (last.handler = "router" /\ PostInvalid(last.body) # {}) => last.http # 200

(* A call with two items or more that failed on a later insert, after an   *)
(* earlier insert of the batch had run.                                    *)
C28_Witness ==
    /\ Responded
    /\ last.http = 500
    /\ Cardinality(TraceOps("INSERT")) >= 2
    /\ FailedStmt.op = "INSERT"

(* C21: a call in which an update statement met zero rows for a row that   *)
(* had passed the verification (or, where the handler verifies nothing,    *)
(* was a row of the order when the call began) fails: it does not commit.  *)
C21_RaceDetected ==
    \A p \in Procs : (tx[p].pc = "done" /\ tx[p].zero) => tx[p].http # 200

(* C26: once two concurrent calls of the monolithic handler on the same    *)
(* key have both committed, all rows of the order carry the same           *)
(* order-level fields.                                                     *)
C26_ConcurrentDenormalized ==
    (\A p \in Procs : tx[p].pc = "done" /\ tx[p].http = 200 /\ tx[p].h = "app") =>
        \A r1, r2 \in RowsOf(orders, ConcKey) :
           r1.customer_name = r2.customer_name /\ r1.status = r2.status

Duplicates(rows) ==
    {r \in rows : \E q \in rows : q # r /\ (q.firebase_uid = r.firebase_uid \/ q.email = r.email)}

(* C29: after any interleaving of POST /signup-admin calls the admins      *)
(* table holds at most one row per firebase_uid and per email, and a       *)
(* signup whose uid or email had a row when its INSERT ran inserted        *)
(* nothing and answered "Admin already exists".                            *)
C29_AdminUnique ==
    /\ Duplicates(admins) = {}
    /\ \A p \in Procs :
          (signup.call[p].pc = "done" /\ signup.call[p].existed) =>
              /\ signup.call[p].inserted = 0
              /\ signup.call[p].message = "Admin already exists"

(* C30: every connection a health check acquired is released before the    *)
(* handler responds, so that when no health check is running no connection *)
(* is checked out of the pool.                                             *)
C30_HealthReleases ==
    /\ \A h \in HealthHandlers : health[h].pc = "done" => ~health[h].conn
    /\ (\A h \in HealthHandlers : health[h].pc \in {"idle", "done"}) => pool.busy = 0

====
